---- MODULE Spec2Model ----
(***************************************************************************)
(* State-machine model of src/src/splitter.py: the Splitter embedding      *)
(* tables (Splitter.create_weights / initialize_weights) and the trainer   *)
(* (SplitterTrainer.create_negative_sample_pool, create_split,             *)
(* setup_model, create_batch_from_path, transfer_batch, optimize, fit).    *)
(*                                                                         *)
(* Embedding rows are abstract: a row is [init |-> t, upd |-> n], where t  *)
(* names the learned base vector the row was filled with (the original     *)
(* node whose vector it is) and n counts the Adam updates applied to it.   *)
(* Indices are Python's (0-based); sequences are TLA+'s (1-based).         *)
(***************************************************************************)
EXTENDS Integers, Sequences, FiniteSets, TLC

\* ---------------------------------------------------------------- bounds
MaxWalks == 3          \* walks the persona walker simulates (fit)
MaxWalkLength == 3     \* walk_length (direct create_batch_from_path calls)
MaxPersonas == 3       \* nodes of the persona graph (pool construction)
\* DataLoader(batch_size=100) at splitter.py:264, scaled down so that a run
\* has more than one mini-batch.
batch_size == 2

\* Input sets
GraphSizes == {0, 1, 2}          \* number of nodes of the source graph
Windows == {1, 2}                \* window_size
Negatives == {0, 1}              \* negative_samples
Lambdas == {0, 1}                \* 0: lambd = 0.0, 1: lambd # 0.0

\* torch.nn.Embedding(..., padding_idx = 0)
padding_idx == 0

VARIABLES
    pc,                    \* stage of fit
    phase,                 \* position inside the training loop
    err,                   \* exception that ended the last operation
    graph,                 \* number of nodes of self.graph (nodes 1..graph)
    walk_length, window_size, negative_samples,
    lambd,                 \* 0: lambd = 0.0, 1: lambd # 0.0
    str2idx,               \* base_walker.str2idx
    base_node_embedding,   \* trainer's learned base embedding (numpy array)
    personality_map,       \* egonet_splitter.personality_map, as items()
    persona_graph,         \* egonet_splitter.persona_graph
    walks,                 \* len(persona_walker.walks); a walk's nodes are
                           \* drawn when the walk is first read
    negative_samples_pool,
    pure_sources, personas, sources, contexts, targets,
    model,                 \* the Splitter module's two embedding weights
    optimizer,             \* Adam: parameters, nonzero moments, step count
    loader,                \* DataLoader iteration: walks left, mini-batch
    transferred,           \* node_f, feature_f, source_f, original_f
    mark,                  \* history: accumulator lengths before the last
                           \* create_batch_from_path call, and its walk
    stages                 \* history: the stages fit has entered, in order

vars == <<pc, phase, err, graph, walk_length, window_size, negative_samples,
          lambd, str2idx, base_node_embedding, personality_map,
          persona_graph, walks, negative_samples_pool, pure_sources,
          personas, sources, contexts, targets, model, optimizer, loader,
          transferred, mark, stages>>

\* ------------------------------------------------------------- helpers
Range(s) == {s[i] : i \in DOMAIN s}

\* Python's len(range(a, b))
RangeLen(a, b) == IF b > a THEN b - a ELSE 0

RECURSIVE Repeat(_, _)
Repeat(x, n) == IF n <= 0 THEN <<>> ELSE <<x>> \o Repeat(x, n - 1)

RECURSIVE TimesShort(_, _)
\* Fault: the list repeated one time too few
TimesShort(s, n) == IF n <= 1 THEN <<>> ELSE s \o TimesShort(s, n - 1)

RECURSIVE Times(_, _)
\* Python's list * n
Times(s, n) == IF n <= 0 THEN <<>> ELSE s \o Times(s, n - 1)

Count(s, x) == Cardinality({i \in DOMAIN s : s[i] = x})

Surjections(S, T) == {f \in [S -> T] : \A t \in T : \E x \in S : f[x] = t}

\* dict lookup on the items() sequence of personality_map
InMap(m, p) == \E i \in DOMAIN m : m[i][1] = p
MapGet(m, p) == m[CHOOSE i \in DOMAIN m : m[i][1] = p][2]

NoModel == [created |-> FALSE, base |-> <<>>, node |-> <<>>,
            base_requires_grad |-> FALSE, node_requires_grad |-> FALSE]
NoOptimizer == [params |-> {}, base_moment |-> {}, node_moment |-> {},
                steps |-> 0]
NoLoader == [remaining |-> 0, batch |-> 0, pos |-> 0, batches |-> 0]
NoTransfer == [node_f |-> <<>>, feature_f |-> <<>>, source_f |-> <<>>,
               original_f |-> <<>>]
NoMark == [calls |-> 0, walk |-> <<>>, pure_sources |-> 0, personas |-> 0,
           sources |-> 0, contexts |-> 0, targets |-> 0]

\* ------------------------------------------------ negative sample pool
\* Fault: the degree taken without the 0.75 exponent
DownsampledDegreeLinear(d) == 1 + d

\* int(1 + degree ** 0.75): the integer part of 1 + d^(3/4)
DownsampledDegree(d) ==
    1 + (CHOOSE m \in 0..d : m * m * m * m <= d * d * d
                             /\ (m + 1) * (m + 1) * (m + 1) * (m + 1) > d * d * d)

Degree(g, n) == Cardinality({e \in g.edges : n \in e})

RECURSIVE PoolFrom(_, _, _)
\* [k for k, v in downsampled_degrees.items() for i in range(v)], nodes n..last
PoolFrom(g, n, last) ==
    IF n > last THEN <<>>
    ELSE Repeat(n, DownsampledDegree(Degree(g, n))) \o PoolFrom(g, n + 1, last)

CreateNegativeSamplePool(g) == PoolFrom(g, 0, g.nodes - 1)

\* ------------------------------------------------------- embedding tables
\* Fault: a table without rows is created without an error
CreateWeightsNeverFails(count) == FALSE

\* torch.nn.Embedding(count, dimensions, padding_idx = 0): the constructor
\* zeroes weight[padding_idx], which raises IndexError on a table that has no
\* row padding_idx, so on a table without rows.
CreateWeightsFails(count) == padding_idx >= count

Row(t) == [init |-> t, upd |-> 0]

\* initialize_weights: the persona table is filled in the order mapping.items()
\* enumerates the personas; the base table is the learned embedding. Both
\* assignments replace weight.data only, so both weights keep the
\* requires_grad = True they were created with.
InitializeWeights(emb, mapping, s2i) ==
    [created |-> TRUE,
     base |-> [i \in DOMAIN emb |-> Row(emb[i])],
     node |-> [k \in 0..(Len(mapping) - 1) |-> Row(emb[s2i[mapping[k + 1][2]]])],
     base_requires_grad |-> TRUE,
     node_requires_grad |-> TRUE]

\* ------------------------------------------------------ skip-gram batch
\* Fault: only the positions whose two windows both fit are sources
SourceNodesBothWindows(walk, L, w) ==
    [t \in 1..(RangeLen(w, L - w) * w) |-> walk[(w + ((t - 1) \div w)) + 1]]
    \o [t \in 1..(RangeLen(w, L - w) * w) |-> walk[(w + ((t - 1) \div w)) + 1]]

\* lines 219 and 221: sources of the forward and backward windows
SourceNodes(walk, L, w) ==
    [t \in 1..(RangeLen(0, L - w) * w) |-> walk[((t - 1) \div w) + 1]]
    \o [t \in 1..(RangeLen(w, L) * w) |-> walk[(w + ((t - 1) \div w)) + 1]]

\* lines 220 and 222: walk[i + j] and walk[i - j]
ContextNodes(walk, L, w) ==
    [t \in 1..(RangeLen(0, L - w) * w) |->
        walk[((t - 1) \div w) + (((t - 1) % w) + 1) + 1]]
    \o [t \in 1..(RangeLen(w, L) * w) |->
        walk[(w + ((t - 1) \div w)) - (((t - 1) % w) + 1) + 1]]

\* np.random.choice(pool, size) raises ValueError on an empty pool unless
\* size is 0; otherwise it draws size elements with replacement.
ChoiceFails(pool, size) == pool = <<>> /\ size # 0
Choices(pool, size) == [1..size -> Range(pool)]

\* create_batch_from_path(walk), lines 218-229, statement by statement; an
\* exception leaves the statements before it done.
CreateBatchFromPath(walk) ==
    LET src == SourceNodes(walk, walk_length, window_size)
        ctx == ContextNodes(walk, walk_length, window_size)
        n == Len(src)
    IN  /\ mark' = [calls |-> mark.calls + 1, walk |-> walk,
                    pure_sources |-> Len(pure_sources),
                    personas |-> Len(personas), sources |-> Len(sources),
                    contexts |-> Len(contexts), targets |-> Len(targets)]
        /\ pure_sources' = pure_sources \o src
        /\ IF \E i \in DOMAIN src : ~InMap(personality_map, src[i])
           THEN /\ err' = "KeyError"
                /\ UNCHANGED <<personas, sources, contexts, targets>>
           ELSE /\ personas' = personas \o
                       [i \in DOMAIN src |->
                           str2idx[MapGet(personality_map, src[i])]]
                /\ sources' = sources \o Times(src, negative_samples + 1)
                /\ IF ChoiceFails(negative_samples_pool, negative_samples * n)
                   THEN /\ err' = "ValueError"
                        /\ UNCHANGED <<contexts, targets>>
                   ELSE /\ err' = "none"
                        /\ \E neg \in Choices(negative_samples_pool,
                                              negative_samples * n) :
                               contexts' = contexts \o ctx \o neg
                        /\ targets' = targets \o Repeat(1, n)
                                      \o Repeat(0, negative_samples * n)

\* Fault: targets is left out of the reset
ResetNodeSetsKeepsTargets ==
    /\ pure_sources' = <<>>
    /\ personas' = <<>>
    /\ sources' = <<>>
    /\ contexts' = <<>>
    /\ UNCHANGED targets

\* reset_node_sets
ResetNodeSets ==
    /\ pure_sources' = <<>>
    /\ personas' = <<>>
    /\ sources' = <<>>
    /\ contexts' = <<>>
    /\ targets' = <<>>

\* ------------------------------------------------------------------ fit
\* Hyperparameters of the fit runs: the shortest walk that yields pairs
FitHyper == [walk_length : {2}, window_size : {1},
             negative_samples : Negatives, lambd : Lambdas]

\* Hyperparameters of the direct create_batch_from_path calls
BatchHyper == [walk_length : 1..MaxWalkLength, window_size : Windows,
               negative_samples : Negatives, lambd : {1}]

\* The trainer after __init__
InitWith(H) ==
    /\ pc = "Uninitialized"
    /\ phase = "idle"
    /\ err = "none"
    /\ graph \in GraphSizes
    /\ \E h \in H : /\ walk_length = h.walk_length
                    /\ window_size = h.window_size
                    /\ negative_samples = h.negative_samples
                    /\ lambd = h.lambd
    /\ str2idx = <<>>
    /\ base_node_embedding = <<>>
    /\ personality_map = <<>>
    /\ persona_graph = [nodes |-> 0, edges |-> {}]
    /\ walks = 0
    /\ negative_samples_pool = <<>>
    /\ pure_sources = <<>>
    /\ personas = <<>>
    /\ sources = <<>>
    /\ contexts = <<>>
    /\ targets = <<>>
    /\ model = NoModel
    /\ optimizer = NoOptimizer
    /\ loader = NoLoader
    /\ transferred = NoTransfer
    /\ mark = NoMark
    /\ stages = <<"Uninitialized">>

Init == InitWith(FitHyper)

\* fit, lines 256-257: reset_node_sets, then base_model_fit. The walker numbers
\* the graph's nodes in enumeration order and learns one vector per node; the
\* vector learned for a node is named by the node.
BaseModelFit ==
    /\ pc = "Uninitialized"
    /\ ResetNodeSets
    /\ str2idx' = [o \in 1..graph |-> o - 1]
    /\ base_node_embedding' = [i \in 0..(graph - 1) |-> i + 1]
    /\ pc' = "BaseFit"
    /\ stages' = Append(stages, pc')
    /\ UNCHANGED <<phase, err, graph, walk_length, window_size,
                   negative_samples, lambd, personality_map, persona_graph,
                   walks, negative_samples_pool, model, optimizer, loader,
                   transferred, mark>>

\* Outcomes of the ego-net split of a graph with n nodes: m personas 0..m-1,
\* each original node owning at least one, enumerated by the mapping in any
\* order; any simple graph over the personas.
Edges(m) == {e \in SUBSET (0..(m - 1)) : Cardinality(e) = 2}

SplitsOf(n, m) ==
    {[map |-> [k \in 1..m |-> <<ord[k], own[ord[k]]>>],
      graph |-> [nodes |-> m, edges |-> es]] :
        own \in Surjections(0..(m - 1), 1..n),
        ord \in Surjections(1..m, 0..(m - 1)),
        es \in SUBSET Edges(m)}

\* Splits of the fit runs: as many personas as GraphSizes allows nodes
FitSplits(n) == UNION {SplitsOf(n, m) : m \in {k \in GraphSizes : k >= n}}

\* Splits of the pool construction: up to MaxPersonas personas
PoolSplits(n) == UNION {SplitsOf(n, m) : m \in n..MaxPersonas}

\* Walks the persona walker simulates: at least one when there are personas
WalkCounts(m) == IF m = 0 THEN {0} ELSE 1..MaxWalks

\* A walk: walk_length persona nodes
Walks(nodes, L) == [1..L -> nodes]

\* create_split, lines 186-195, with the split drawn from S
CreateSplitWith(S) ==
    /\ pc = "BaseFit"
    /\ \E s \in S :
        /\ personality_map' = s.map
        /\ persona_graph' = s.graph
        /\ negative_samples_pool' = CreateNegativeSamplePool(s.graph)
        /\ walks' \in WalkCounts(s.graph.nodes)
    /\ pc' = "SplitReady"
    /\ stages' = Append(stages, pc')
    /\ UNCHANGED <<phase, err, graph, walk_length, window_size,
                   negative_samples, lambd, str2idx, base_node_embedding,
                   pure_sources, personas, sources, contexts, targets, model,
                   optimizer, loader, transferred, mark>>

CreateSplit == CreateSplitWith(FitSplits(graph))

\* setup_model, lines 201-205: create_weights, then initialize_weights
SetupModel ==
    /\ pc = "SplitReady"
    /\ IF CreateWeightsFails(graph) \/ CreateWeightsFails(persona_graph.nodes)
       THEN /\ pc' = "Failed"
            /\ err' = "IndexError"
            /\ UNCHANGED model
       ELSE /\ pc' = "ModelReady"
            /\ model' = InitializeWeights(base_node_embedding, personality_map,
                                          str2idx)
            /\ UNCHANGED err
    /\ stages' = Append(stages, pc')
    /\ UNCHANGED <<phase, graph, walk_length, window_size, negative_samples,
                   lambd, str2idx, base_node_embedding, personality_map,
                   persona_graph, walks, negative_samples_pool, pure_sources,
                   personas, sources, contexts, targets, optimizer, loader,
                   transferred, mark>>

\* model.parameters(): every weight registered on the module
Parameters(m) == {"base_node_embedding", "node_embedding"}

\* fit, lines 260-269: Adam over model.parameters(), the DataLoader
StartTraining ==
    /\ pc = "ModelReady"
    /\ pc' = "Training"
    /\ phase' = "fetch"
    /\ optimizer' = [params |-> Parameters(model), base_moment |-> {},
                     node_moment |-> {}, steps |-> 0]
    /\ loader' = [remaining |-> walks, batch |-> 0, pos |-> 0, batches |-> 0]
    /\ stages' = Append(stages, pc')
    /\ UNCHANGED <<err, graph, walk_length, window_size, negative_samples,
                   lambd, str2idx, base_node_embedding, personality_map,
                   persona_graph, walks, negative_samples_pool, pure_sources,
                   personas, sources, contexts, targets, model, transferred,
                   mark>>

Min(a, b) == IF a < b THEN a ELSE b

\* Size of the mini-batch the loader yields next: batch_size walks, or the
\* walks left when fewer are left
BatchLen(remaining) == Min(batch_size, remaining)

\* line 270: the loader yields the next mini-batch (shuffle=True: any of the
\* walks left, which are drawn as they are read)
FetchBatch ==
    /\ pc = "Training" /\ phase = "fetch"
    /\ loader.remaining > 0
    /\ loader' = [remaining |-> loader.remaining - BatchLen(loader.remaining),
                  batch |-> BatchLen(loader.remaining), pos |-> 0,
                  batches |-> loader.batches + 1]
    /\ phase' = "accumulate"
    /\ UNCHANGED <<pc, err, graph, walk_length, window_size, negative_samples,
                   lambd, str2idx, base_node_embedding, personality_map,
                   persona_graph, walks, negative_samples_pool, pure_sources,
                   personas, sources, contexts, targets, model, optimizer,
                   transferred, mark, stages>>

\* lines 271-272: the next walk of the mini-batch
Accumulate ==
    /\ pc = "Training" /\ phase = "accumulate"
    /\ loader.pos < loader.batch
    /\ \E walk \in Walks(0..(persona_graph.nodes - 1), walk_length) :
         CreateBatchFromPath(walk)
    /\ loader' = [loader EXCEPT !.pos = @ + 1]
    /\ IF err' # "none" THEN pc' = "Failed" /\ phase' = "idle"
       ELSE /\ pc' = pc
            /\ phase' = IF loader.pos + 1 = loader.batch THEN "transfer"
                        ELSE "accumulate"
    /\ stages' = IF pc' # pc THEN Append(stages, pc') ELSE stages
    /\ UNCHANGED <<graph, walk_length, window_size, negative_samples, lambd,
                   str2idx, base_node_embedding, personality_map,
                   persona_graph, walks, negative_samples_pool, model,
                   optimizer, transferred>>

\* transfer_batch, lines 235-239: the four lookups; targets becomes a tensor
\* of the same values
TransferBatch ==
    /\ pc = "Training" /\ phase = "transfer"
    /\ transferred' = [node_f |-> sources, feature_f |-> contexts,
                       source_f |-> pure_sources, original_f |-> personas]
    /\ phase' = "optimize"
    /\ UNCHANGED <<pc, err, graph, walk_length, window_size, negative_samples,
                   lambd, str2idx, base_node_embedding, personality_map,
                   persona_graph, walks, negative_samples_pool, pure_sources,
                   personas, sources, contexts, targets, model, optimizer,
                   loader, mark, stages>>

\* Fault: the padding row gets a gradient like any other row
GradRowsWithPadding(looked) == Range(looked)

\* Rows of a table that loss.backward() gives a gradient: the rows looked up,
\* except the padding row, whose gradient the embedding keeps at zero.
GradRows(looked) == Range(looked) \ {padding_idx}

\* Rows of the persona table reached by the loss: sources and contexts of the
\* main loss, and the sources of the regularization when lambd # 0.
NodeGradRows(t, l) ==
    GradRows(t.node_f) \cup GradRows(t.feature_f)
    \cup (IF l # 0 THEN GradRows(t.source_f) ELSE {})

\* Rows of the base table reached by the loss: original_f enters the
\* regularization, which is scaled by lambd.
BaseGradRows(t, l) == IF l # 0 THEN GradRows(t.original_f) ELSE {}

\* Adam's step on one weight: every row with a nonzero moment moves
AdamStep(weight, moment) ==
    [r \in DOMAIN weight |->
        IF r \in moment THEN [weight[r] EXCEPT !.upd = @ + 1] ELSE weight[r]]

\* optimize, lines 245-250
Optimize ==
    /\ pc = "Training" /\ phase = "optimize"
    /\ LET gn == IF "node_embedding" \in optimizer.params
                    /\ model.node_requires_grad
                 THEN NodeGradRows(transferred, lambd) ELSE {}
           gb == IF "base_node_embedding" \in optimizer.params
                    /\ model.base_requires_grad
                 THEN BaseGradRows(transferred, lambd) ELSE {}
           nm == optimizer.node_moment \cup gn
           bm == optimizer.base_moment \cup gb
       IN  /\ model' = [model EXCEPT !.node = AdamStep(@, nm),
                                     !.base = AdamStep(@, bm)]
           /\ optimizer' = [optimizer EXCEPT !.node_moment = nm,
                                             !.base_moment = bm,
                                             !.steps = @ + 1]
    /\ ResetNodeSets
    /\ phase' = "fetch"
    /\ UNCHANGED <<pc, err, graph, walk_length, window_size, negative_samples,
                   lambd, str2idx, base_node_embedding, personality_map,
                   persona_graph, walks, negative_samples_pool, loader,
                   transferred, mark, stages>>

\* Fault: fit returns while the loader still has walks
FinishEarly ==
    /\ pc = "Training" /\ phase = "fetch"
    /\ pc' = "Done"
    /\ phase' = "idle"
    /\ stages' = Append(stages, pc')
    /\ UNCHANGED <<err, graph, walk_length, window_size, negative_samples,
                   lambd, str2idx, base_node_embedding, personality_map,
                   persona_graph, walks, negative_samples_pool, pure_sources,
                   personas, sources, contexts, targets, model, optimizer,
                   loader, transferred, mark>>

\* line 270, the loader is exhausted: fit returns
Finish ==
    /\ pc = "Training" /\ phase = "fetch"
    /\ loader.remaining = 0
    /\ pc' = "Done"
    /\ phase' = "idle"
    /\ stages' = Append(stages, pc')
    /\ UNCHANGED <<err, graph, walk_length, window_size, negative_samples,
                   lambd, str2idx, base_node_embedding, personality_map,
                   persona_graph, walks, negative_samples_pool, pure_sources,
                   personas, sources, contexts, targets, model, optimizer,
                   loader, transferred, mark>>

Next ==
    \/ BaseModelFit
    \/ CreateSplit
    \/ SetupModel
    \/ StartTraining
    \/ FetchBatch
    \/ Accumulate
    \/ TransferBatch
    \/ Optimize
    \/ Finish

Spec == Init /\ [][Next]_vars

\* ------------------------------------- direct create_batch_from_path call
\* Node ids a caller can put in the walk it passes
CallerNodes == {0, 1}

InitBatch == InitWith(BatchHyper)

\* create_batch_from_path(walk) called once on a trainer after create_split
DirectCreateBatch ==
    /\ pc = "SplitReady"
    /\ mark.calls = 0
    /\ \E walk \in Walks(CallerNodes, walk_length) : CreateBatchFromPath(walk)
    /\ UNCHANGED <<pc, phase, graph, walk_length, window_size,
                   negative_samples, lambd, str2idx, base_node_embedding,
                   personality_map, persona_graph, walks,
                   negative_samples_pool, model, optimizer, loader,
                   transferred, stages>>

NextBatch ==
    \/ BaseModelFit
    \/ CreateSplit
    \/ DirectCreateBatch

SpecBatch == InitBatch /\ [][NextBatch]_vars

\* ------------------------------------------------------ pool construction
CreateSplitPool == CreateSplitWith(PoolSplits(graph))

NextPool ==
    \/ BaseModelFit
    \/ CreateSplitPool

SpecPool == Init /\ [][NextPool]_vars

\* ================================================================ claims
Called == mark.calls > 0

\* Positive pairs the last create_batch_from_path call appended
PositivePairs == Len(pure_sources) - mark.pure_sources

\* What the last call appended to an accumulator that held n entries
Block(acc, n) == SubSeq(acc, n + 1, Len(acc))

AccumulatorsEmpty ==
    /\ pure_sources = <<>>
    /\ personas = <<>>
    /\ sources = <<>>
    /\ contexts = <<>>
    /\ targets = <<>>

\* C1, as claimed: a call on a walk of length L with window w emits
\* 2*w*(L-2*w) positive pairs when L > 2*w and none when L <= 2*w.
C1_PairCountClaimed ==
    (Called /\ err = "none") =>
        PositivePairs =
            IF walk_length > 2 * window_size
            THEN 2 * window_size * (walk_length - 2 * window_size)
            ELSE 0

\* C1, amended: a call emits 2*w*(L-w) positive pairs when L > w (w per
\* position whose forward window fits, w per position whose backward window
\* fits; a one-sided window cut by the walk's end is dropped whole), and when
\* L <= w it returns normally having appended nothing.
C1_PairCount ==
    Called =>
        /\ err = "none" =>
              /\ PositivePairs =
                    IF walk_length > window_size
                    THEN 2 * window_size * (walk_length - window_size)
                    ELSE 0
              /\ Len(personas) - mark.personas = PositivePairs
        /\ walk_length <= window_size =>
              /\ err = "none"
              /\ Len(pure_sources) = mark.pure_sources
              /\ Len(sources) = mark.sources
              /\ Len(contexts) = mark.contexts
              /\ Len(targets) = mark.targets

C1_Witness ==
    /\ Called /\ err = "none"
    /\ walk_length = 3 /\ window_size = 1
    /\ PositivePairs = 4

\* c occurs within window_size positions of s in the walk
TruePair(walk, s, c) ==
    \E a, b \in DOMAIN walk :
        /\ a # b
        /\ a - b <= window_size /\ b - a <= window_size
        /\ walk[a] = s /\ walk[b] = c

\* C3: a call that produced P positive pairs appended P ones then
\* negative_samples*P zeros to targets; P*(negative_samples+1) entries to each
\* of sources, contexts and targets; each of the first P sources with a context
\* from its window, each later one with a context from the pool.
C3_BatchLayout ==
    (Called /\ err = "none") =>
        LET P == PositivePairs
            k == negative_samples
            PS == Block(pure_sources, mark.pure_sources)
            S == Block(sources, mark.sources)
            C == Block(contexts, mark.contexts)
            T == Block(targets, mark.targets)
        IN  /\ Len(S) = P * (k + 1)
            /\ Len(C) = P * (k + 1)
            /\ Len(T) = P * (k + 1)
            /\ \A i \in DOMAIN T : T[i] = IF i <= P THEN 1 ELSE 0
            /\ \A i \in DOMAIN S : S[i] = PS[((i - 1) % P) + 1]
            /\ \A i \in 1..P : TruePair(mark.walk, S[i], C[i])
            /\ \A i \in (P + 1)..Len(C) : C[i] \in Range(negative_samples_pool)

C3_Witness ==
    /\ Called /\ err = "none"
    /\ negative_samples = 1
    /\ PositivePairs = 4
    /\ Len(targets) - mark.targets = 8

\* C8, as claimed: with an empty pool, a call that has pairs to draw
\* negatives for raises, and has appended nothing to the accumulators.
C8_EmptyPoolRaises ==
    (Called /\ negative_samples_pool = <<>> /\ negative_samples > 0
            /\ walk_length > window_size) =>
        /\ err # "none"
        /\ Len(pure_sources) = mark.pure_sources
        /\ Len(personas) = mark.personas
        /\ Len(sources) = mark.sources
        /\ Len(contexts) = mark.contexts
        /\ Len(targets) = mark.targets

\* C2, as claimed: the base table keeps the learned base embedding through
\* every optimizer step.
C2_BaseFrozen ==
    model.created =>
        model.base = [i \in DOMAIN base_node_embedding |->
                         Row(base_node_embedding[i])]

\* C4, as claimed: right after setup_model, every persona's row is the base
\* row of the original node the mapping gives it.
C4_PersonaInit ==
    pc = "ModelReady" =>
        \A k \in DOMAIN personality_map :
            model.node[personality_map[k][1]] =
                model.base[str2idx[personality_map[k][2]]]

\* C5: every mini-batch gets exactly one optimizer step, taken after all its
\* walks are accumulated; the accumulators are empty before a mini-batch's
\* first walk; a finished run took one step per mini-batch.
C5_OneStepPerBatch ==
    /\ (pc = "Training" /\ phase = "fetch") =>
          /\ optimizer.steps = loader.batches
          /\ mark.calls = walks - loader.remaining
          /\ AccumulatorsEmpty
    /\ (pc = "Training" /\ phase \in {"accumulate", "transfer", "optimize"}) =>
          /\ optimizer.steps = loader.batches - 1
          /\ mark.calls = walks - loader.remaining - loader.batch + loader.pos
    /\ (pc = "Training" /\ phase = "accumulate" /\ loader.pos = 0) =>
          AccumulatorsEmpty
    /\ (pc = "Training" /\ phase \in {"transfer", "optimize"}) =>
          loader.pos = loader.batch
    /\ pc = "Done" =>
          /\ optimizer.steps = loader.batches
          /\ loader.batches * batch_size >= walks
          /\ (loader.batches - 1) * batch_size < walks
          /\ mark.calls = walks
          /\ AccumulatorsEmpty

C5_Witness ==
    /\ pc = "Done"
    /\ loader.batches = 2
    /\ optimizer.steps = 2
    /\ mark.calls = 3

StageOrder == <<"Uninitialized", "BaseFit", "SplitReady", "ModelReady",
                "Training", "Done">>

Entered(st) == st \in Range(stages)

\* C6: fit enters the stages in the order Uninitialized, BaseFit, SplitReady,
\* ModelReady, Training, Done, none skipped or entered twice; the pool exists
\* only after the split, the tables only after base fit and split, optimizer
\* steps only after ModelReady; a run over a graph with nodes goes on until
\* Done, which it enters with no walk left and every mini-batch optimized.
C6_StageOrder ==
    /\ \A i \in DOMAIN stages :
          \/ i <= Len(StageOrder) /\ stages[i] = StageOrder[i]
          \/ i = Len(stages) /\ stages[i] = "Failed"
    /\ pc = stages[Len(stages)]
    /\ negative_samples_pool # <<>> => Entered("SplitReady")
    /\ model.created => Entered("BaseFit") /\ Entered("SplitReady")
    /\ optimizer.steps > 0 => Entered("ModelReady") /\ Entered("Training")
    /\ pc = "Done" =>
          /\ loader.remaining = 0
          /\ optimizer.steps = loader.batches
          /\ phase = "idle"
    /\ graph > 0 => pc # "Failed"
    /\ pc \in {"Done", "Failed"} \/ ENABLED Next

C6_Witness ==
    /\ pc = "Done"
    /\ stages = StageOrder
    /\ optimizer.steps = 2

C10_PaddingRowFixed ==
    model.created =>
        model.node[padding_idx] =
            InitializeWeights(base_node_embedding, personality_map,
                              str2idx).node[padding_idx]

C10_Witness ==
    /\ optimizer.steps > 0
    /\ padding_idx \in Range(transferred.node_f)
    /\ padding_idx \in Range(transferred.feature_f)
    /\ \E r \in DOMAIN model.node : model.node[r].upd > 0

\* C9: every node of the persona graph is in the pool 1 + floor(degree^0.75)
\* times, so at least once, and no less often than a node of smaller degree.
C9_PoolMultiplicity ==
    Entered("SplitReady") =>
        LET nodes == 0..(persona_graph.nodes - 1)
            deg(n) == Degree(persona_graph, n)
            mult(n) == Count(negative_samples_pool, n)
        IN  /\ Range(negative_samples_pool) = nodes
            /\ \A n \in nodes :
                  /\ mult(n) >= 1
                  /\ (mult(n) - 1) * (mult(n) - 1) * (mult(n) - 1) * (mult(n) - 1)
                        <= deg(n) * deg(n) * deg(n)
                  /\ mult(n) * mult(n) * mult(n) * mult(n)
                        > deg(n) * deg(n) * deg(n)
            /\ \A n1, n2 \in nodes :
                  deg(n1) <= deg(n2) => mult(n1) <= mult(n2)

C9_Witness ==
    /\ Entered("SplitReady")
    /\ \E n1, n2 \in 0..(persona_graph.nodes - 1) :
          /\ Degree(persona_graph, n1) = 1
          /\ Degree(persona_graph, n2) = 2
          /\ Count(negative_samples_pool, n1) = 2
          /\ Count(negative_samples_pool, n2) = 2

====
